---- MODULE Spec2Model ----
(***************************************************************************)
(* Harvard Shop inventory server (src/server.js): the sale / inventory /   *)
(* stock-movement / alert flow over the one shared sqlite3 handle `db`.    *)
(*                                                                         *)
(* Every request handler is a chain of callbacks; each callback runs one   *)
(* SQL statement to completion and then issues the next.  One action of    *)
(* the model is one statement together with the callback it completes.     *)
(* All requests share one connection, so a transaction belongs to the      *)
(* connection, never to a request: `disk` is the committed database, `db`  *)
(* what the connection currently sees, `inTxn` whether BEGIN is open.      *)
(***************************************************************************)
EXTENDS Integers, Sequences, FiniteSets, TLC

\* ------------------------------------------------------------------ bounds
MaxReq == 2
MaxPid == 2
MaxRows == 2

Req == 1..MaxReq
Pid == 1..MaxPid

\* stock of product 1, the one product present at start:
\* <<quantity, reorder_level>>; kept in the field `start` of the database
\* record, which no statement writes
InitStock == {<<10, 4>>, <<5, 15>>, <<2, 10>>}
\* quantity_sold of a POST /api/sales body (0 also stands for a missing one)
SellQty == {-1, 0, 2, 3, 6, 10}
\* quantity of a POST / PUT /api/products body
AdminQty == {-1, 0, 2}
\* reorder_level of a POST / PUT /api/products body
AdminReorder == {-1, 10}

VARIABLES db, disk, inTxn, pc, rq, tasks

vars == <<db, disk, inTxn, pc, rq, tasks>>

\* ------------------------------------------------------------- the tables
InventoryRow(q, rl) == [quantity |-> q, reorder_level |-> rl]

SaleRow(p, n, r) == [product_id |-> p, quantity_sold |-> n, by |-> r]

MovementRow(p, type, change, prev, new, ref, r) ==
    [product_id |-> p, movement_type |-> type, quantity_change |-> change,
     previous_quantity |-> prev, new_quantity |-> new, sale |-> ref, by |-> r]

\* `resolved` stands for resolved_at and resolved_by: 0 for NULL, else the
\* request that stamped them (-1: stamped before the server started)
AlertRow(p, type, prio, q, rl, r) ==
    [product_id |-> p, alert_type |-> type, priority |-> prio,
     status |-> "active", resolved |-> 0,
     quantity |-> q, reorder_level |-> rl, by |-> r]

\* the alerts table found at start: empty, or one alert of product 1 that
\* was raised and resolved earlier
InitAlerts ==
    {<<>>,
     <<[AlertRow(1, "low_stock", "high", 1, 10, 0)
           EXCEPT !.status = "resolved", !.resolved = -1]>>}

\* rows of `inventory` with product_id = p, in rowid order
InvRows(d, p) == d.inventory[p]

\* UPDATE inventory SET quantity = q WHERE product_id = p
SetQuantity(d, p, q) ==
    [d EXCEPT !.inventory[p] =
        [i \in 1..Len(@) |-> [@[i] EXCEPT !.quantity = q]]]

\* the update that also resolves the alerts of a product restocked above
\* its reorder level
SetInventoryResolving(d, p, q, rl) ==
    [d EXCEPT !.inventory[p] = [i \in 1..Len(@) |-> InventoryRow(q, rl)],
              !.alerts = [i \in 1..Len(@) |->
                  IF @[i].product_id = p /\ q > rl
                  THEN [@[i] EXCEPT !.status = "resolved"] ELSE @[i]]]

\* UPDATE inventory SET quantity = q, reorder_level = rl WHERE product_id = p
SetInventory(d, p, q, rl) ==
    [d EXCEPT !.inventory[p] = [i \in 1..Len(@) |-> InventoryRow(q, rl)]]

\* a statement that changes the database: inside an open transaction it
\* stays uncommitted, outside one sqlite commits it at once
Write(d) ==
    /\ db' = d
    /\ disk' = IF inTxn THEN disk ELSE d

NoWrite == UNCHANGED <<db, disk>>

\* ------------------------------------------------------------ the requests
\* locals of one request handler (the closure variables of its callbacks)
NoReq == [kind |-> "none", role |-> "none",
          pid |-> 0, qty |-> 0, price |-> FALSE,
          rows |-> <<>>, count |-> 0, errs |-> 0, missing |-> 0,
          inserted |-> 0, dberrs |-> 0,
          rl |-> 0, prev |-> 0, alertId |-> 0,
          newQ |-> 0, rowRl |-> 0, saleId |-> 0, resp |-> "none",
          avail |-> 0, low |-> FALSE, failed |-> "none"]

\* slots are taken in order: requests are interchangeable
Startable(r) == pc[r] = "idle" /\ \A s \in Req : s < r => pc[s] # "idle"

\* no handler and no alert evaluation is in flight
Quiescent ==
    /\ \A r \in Req : pc[r] \in {"idle", "done", "crashed"}
    /\ \A i \in 1..Len(tasks) : tasks[i].pc \in {"done", "crashed"}

Init ==
    /\ \E s \in InitStock, a \in InitAlerts :
         db = [start |-> s, products |-> {1}, seq |-> 1,
               inventory |-> [p \in Pid |->
                   IF p = 1 THEN <<InventoryRow(s[1], s[2])>> ELSE <<>>],
               sales |-> <<>>, movements |-> <<>>, alerts |-> a]
    /\ disk = db
    /\ inTxn = FALSE
    /\ pc = [r \in Req |-> "idle"]
    /\ rq = [r \in Req |-> NoReq]
    /\ tasks = <<>>

\* An error of a statement that was given no callback is emitted as an
\* 'error' event nobody listens to: the exception is uncaught and the
\* process exits.  The open transaction is lost with the connection and
\* every request and alert evaluation in flight is abandoned.
Crash(r) ==
    /\ db' = disk
    /\ disk' = disk
    /\ inTxn' = FALSE
    /\ pc' = [s \in Req |->
                IF s # r /\ pc[s] \in {"idle", "done"} THEN pc[s]
                ELSE "crashed"]
    /\ tasks' = [i \in 1..Len(tasks) |->
                IF tasks[i].pc = "done" THEN tasks[i]
                ELSE [tasks[i] EXCEPT !.pc = "crashed"]]

\* db.run('BEGIN TRANSACTION'), no callback: fails inside a transaction
Begin(r, next, crash) ==
    IF inTxn /\ crash
    THEN Crash(r)
    ELSE /\ inTxn' = TRUE
         /\ pc' = [pc EXCEPT ![r] = next]
         /\ UNCHANGED <<db, disk, tasks>>

\* db.run('COMMIT'), no callback: fails when no transaction is open, and
\* when the journal cannot be written (~ok); sqlite then rolls the
\* transaction back
Commit(r, next, ok, crash) ==
    IF inTxn /\ ok
    THEN /\ disk' = db
         /\ inTxn' = FALSE
         /\ pc' = [pc EXCEPT ![r] = next]
         /\ UNCHANGED <<db, tasks>>
    ELSE IF crash
         THEN Crash(r)
         ELSE /\ db' = disk
              /\ inTxn' = FALSE
              /\ pc' = [pc EXCEPT ![r] = next]
              /\ UNCHANGED <<disk, tasks>>

\* the error branch ends without its ROLLBACK taking effect
RollbackLeavesOpen(r, crash) ==
    /\ pc[r] = "rollback"
    /\ pc' = [pc EXCEPT ![r] = "done"]
    /\ UNCHANGED <<db, disk, inTxn, tasks, rq>>

\* db.run('ROLLBACK'), no callback: fails when no transaction is open
Rollback(r, crash) ==
    /\ pc[r] = "rollback"
    /\ IF inTxn
       THEN /\ db' = disk
            /\ inTxn' = FALSE
            /\ pc' = [pc EXCEPT ![r] = "done"]
            /\ UNCHANGED <<disk, tasks>>
       ELSE IF crash
            THEN Crash(r)
            ELSE /\ pc' = [pc EXCEPT ![r] = "done"]
                 /\ UNCHANGED <<db, disk, inTxn, tasks>>
    /\ UNCHANGED rq

\* the callback answers with `resp` and leaves the transaction open
FailNoRollback(r, resp, what) ==
    /\ rq' = [rq EXCEPT ![r].resp = resp, ![r].failed = what]
    /\ pc' = [pc EXCEPT ![r] = "done"]

\* the callback issues ROLLBACK and answers with `resp`
Fail(r, resp, what) ==
    /\ rq' = [rq EXCEPT ![r].resp = resp, ![r].failed = what]
    /\ pc' = [pc EXCEPT ![r] = "rollback"]

\* -------------------------------------------------------- POST /api/sales
\* the availability check off by one: lets a sale take one unit too many
InsufficientStockOffByOne(q, n) == q + 1 < n

\* the availability check with <= : refuses to sell the last units
InsufficientStockInclusive(q, n) == q <= n

\* if (row.quantity < quantity_sold)
InsufficientStock(q, n) == q < n

\* const newQuantity = previousQuantity - quantity_sold
NewQuantity(prev, n) == prev - n

\* if (newQuantity <= row.reorder_level)
\* the low-stock test without the equality case
LowStockStrict(q, rl) == q < rl

LowStock(q, rl) == q <= rl

\* the validation without its sign test
ValidSaleAnySign(p, n, price) == ~(p = 0 \/ n = 0 \/ ~price)

ValidSale(p, n, price) == ~(p = 0 \/ n = 0 \/ ~price \/ n <= 0)

SaleReject(r) ==
    /\ Startable(r)
    /\ \E p \in Pid \cup {0}, n \in SellQty, price \in BOOLEAN :
         /\ ~ValidSale(p, n, price)
         /\ rq' = [rq EXCEPT ![r] = [NoReq EXCEPT !.kind = "sale",
                                        !.pid = p, !.qty = n, !.price = price,
                                        !.resp = "400 validation"]]
    /\ pc' = [pc EXCEPT ![r] = "done"]
    /\ UNCHANGED <<db, disk, inTxn, tasks>>

\* a valid sale request for one of the products P
SaleBeginFor(P, r, crash) ==
    /\ Startable(r)
    /\ \E p \in P \cup {0}, n \in SellQty, price \in BOOLEAN :
         /\ ValidSale(p, n, price)
         /\ rq' = [rq EXCEPT ![r] = [NoReq EXCEPT !.kind = "sale",
                                        !.pid = p, !.qty = n, !.price = price]]
    /\ Begin(r, "s_get", crash)

SaleBegin(r, crash) == SaleBeginFor(Pid, r, crash)

SaleGet(r, ok) ==
    /\ pc[r] = "s_get"
    /\ LET rows == InvRows(db, rq[r].pid)
           n == rq[r].qty
       IN  IF ~ok \/ rows = <<>>
           THEN Fail(r, "400 not found", IF ok THEN "none" ELSE "read")
           ELSE IF InsufficientStock(rows[1].quantity, n)
           THEN /\ rq' = [rq EXCEPT ![r].resp = "400 insufficient",
                                    ![r].avail = rows[1].quantity]
                /\ pc' = [pc EXCEPT ![r] = "rollback"]
           ELSE /\ rq' = [rq EXCEPT ![r].prev = rows[1].quantity,
                                    ![r].newQ = NewQuantity(rows[1].quantity, n),
                                    ![r].rowRl = rows[1].reorder_level]
                /\ pc' = [pc EXCEPT ![r] = "s_insert"]
    /\ UNCHANGED <<db, disk, inTxn, tasks>>

SaleInsert(r, ok) ==
    /\ pc[r] = "s_insert"
    /\ IF ok
       THEN /\ Write([db EXCEPT !.sales =
                        Append(@, SaleRow(rq[r].pid, rq[r].qty, r))])
            /\ rq' = [rq EXCEPT ![r].saleId = Len(db.sales) + 1]
            /\ pc' = [pc EXCEPT ![r] = "s_update"]
       ELSE /\ Fail(r, "500 sale", "sale")
            /\ NoWrite
    /\ UNCHANGED <<inTxn, tasks>>

SaleUpdate(r, ok) ==
    /\ pc[r] = "s_update"
    /\ IF ok
       THEN /\ Write(SetQuantity(db, rq[r].pid, rq[r].newQ))
            /\ pc' = [pc EXCEPT ![r] = "s_move"]
            /\ UNCHANGED rq
       ELSE /\ Fail(r, "500 inventory", "inventory")
            /\ NoWrite
    /\ UNCHANGED <<inTxn, tasks>>

\* the movement logged with the quantity sold instead of its negation
SaleMovementRowUnsigned(r) ==
    MovementRow(rq[r].pid, "sale", rq[r].qty, rq[r].prev, rq[r].newQ,
                rq[r].saleId, r)

\* [product_id, -quantity_sold, previousQuantity, newQuantity, `Sale #id`]
SaleMovementRow(r) ==
    MovementRow(rq[r].pid, "sale", -rq[r].qty, rq[r].prev, rq[r].newQ,
                rq[r].saleId, r)

\* the alert evaluation createLowStockAlert(p, q, rl) started by `r`
Task(r, p, q, rl) ==
    [by |-> r, pid |-> p, q |-> q, rl |-> rl, pc |-> "a_get", failed |-> FALSE,
     clear |-> FALSE]

\* the stock movement insert and its callback: an error is only logged;
\* COMMIT is issued, the alert evaluation is started, the sale answers 201
SaleMovement(r, ok) ==
    /\ pc[r] = "s_move"
    /\ LET q == rq[r].newQ
           low == LowStock(q, rq[r].rowRl)
       IN  /\ IF ok
              THEN Write([db EXCEPT !.movements =
                             Append(@, SaleMovementRow(r))])
              ELSE NoWrite
           /\ tasks' = IF low
                       THEN Append(tasks, Task(r, rq[r].pid, q, rq[r].rowRl))
                       ELSE tasks
           /\ rq' = [rq EXCEPT ![r].resp = "201", ![r].low = low,
                               ![r].failed = IF ok THEN "none" ELSE "movement"]
    /\ pc' = [pc EXCEPT ![r] = "s_commit"]
    /\ UNCHANGED inTxn

SaleCommit(r, ok, crash) ==
    /\ pc[r] = "s_commit"
    /\ Commit(r, "done", ok, crash)
    /\ rq' = [rq EXCEPT ![r].failed = IF ok THEN @ ELSE "commit"]

\* ---------------------------------------------------- createLowStockAlert
ActiveLowStock(d, p) ==
    \E i \in 1..Len(d.alerts) :
        /\ d.alerts[i].product_id = p
        /\ d.alerts[i].alert_type = "low_stock"
        /\ d.alerts[i].status = "active"

\* the classification without its out-of-stock case
AlertTypeAlwaysLow(q) == "low_stock"

AlertType(q) == IF q = 0 THEN "out_of_stock" ELSE "low_stock"

AlertPriority(q) == IF q = 0 THEN "critical" ELSE "high"

\* an active alert of product p, of either type
ActiveAlert(d, p) ==
    \E i \in 1..Len(d.alerts) :
        d.alerts[i].product_id = p /\ d.alerts[i].status = "active"

\* `clear` notes whether the product had no active alert at all when the
\* lookup ran
AlertGet(i, ok) ==
    /\ i \in 1..Len(tasks)
    /\ tasks[i].pc = "a_get"
    /\ tasks' = [tasks EXCEPT ![i].pc =
                   IF ~ok \/ ActiveLowStock(db, tasks[i].pid)
                   THEN "done" ELSE "a_product",
                                ![i].failed = ~ok,
                                ![i].clear = ~ActiveAlert(db, tasks[i].pid)]
    /\ UNCHANGED <<db, disk, inTxn, pc, rq>>

AlertProduct(i, ok) ==
    /\ i \in 1..Len(tasks)
    /\ tasks[i].pc = "a_product"
    /\ tasks' = [tasks EXCEPT ![i].pc =
                   IF ~ok \/ tasks[i].pid \notin db.products
                   THEN "done" ELSE "a_insert",
                                ![i].failed = ~ok]
    /\ UNCHANGED <<db, disk, inTxn, pc, rq>>

\* the insert whose failure is handed back to the sale
AlertInsertFailingSale(i, ok) ==
    /\ i \in 1..Len(tasks)
    /\ tasks[i].pc = "a_insert"
    /\ LET t == tasks[i]
       IN  IF ok
           THEN Write([db EXCEPT !.alerts = Append(@,
                    AlertRow(t.pid, AlertType(t.q), AlertPriority(t.q),
                             t.q, t.rl, t.by))])
           ELSE NoWrite
    /\ tasks' = [tasks EXCEPT ![i].pc = "done", ![i].failed = ~ok]
    /\ rq' = [rq EXCEPT ![tasks[i].by].resp = IF ok THEN @ ELSE "500 alert"]
    /\ UNCHANGED <<inTxn, pc>>

AlertInsert(i, ok) ==
    /\ i \in 1..Len(tasks)
    /\ tasks[i].pc = "a_insert"
    /\ LET t == tasks[i]
       IN  IF ok
           THEN Write([db EXCEPT !.alerts = Append(@,
                    AlertRow(t.pid, AlertType(t.q), AlertPriority(t.q),
                             t.q, t.rl, t.by))])
           ELSE NoWrite
    /\ tasks' = [tasks EXCEPT ![i].pc = "done", ![i].failed = ~ok]
    /\ UNCHANGED <<inTxn, pc, rq>>

\* ------------------------------------------- cron.schedule('0 9 * * *')
RECURSIVE LowStockRows(_, _)
\* products JOIN inventory WHERE quantity <= reorder_level, for ids 1..p
LowStockRows(d, p) ==
    IF p = 0 THEN <<>>
    ELSE LowStockRows(d, p - 1) \o
         (IF p \in d.products
          THEN [i \in 1..Len(InvRows(d, p)) |-> <<p, InvRows(d, p)[i]>>]
          ELSE <<>>)

\* the sweep that selects every product
IsLowAlways(pr) == TRUE

IsLow(pr) == pr[2].quantity <= pr[2].reorder_level

DailyStockCheck(r, ok) ==
    /\ Startable(r)
    /\ LET rows == SelectSeq(LowStockRows(db, MaxPid), IsLow)
       IN  tasks' = IF ok
                    THEN tasks \o [i \in 1..Len(rows) |->
                            Task(r, rows[i][1], rows[i][2].quantity,
                                 rows[i][2].reorder_level)]
                    ELSE tasks
    /\ rq' = [rq EXCEPT ![r] = [NoReq EXCEPT !.kind = "cron"]]
    /\ pc' = [pc EXCEPT ![r] = "done"]
    /\ UNCHANGED <<db, disk, inTxn>>

\* ------------------------------------------------------------ requireRole
\* users.role; the token of a request carries the role of its user
Roles == {"admin", "manager", "staff"}

\* the roles each route hands to requireRole
AllowedRoles(kind) ==
    IF kind = "delete" THEN {"admin"} ELSE {"admin", "manager"}

RequireRole(roles, role) == role \in roles

\* 403 'Insufficient permissions': the handler is never entered
Forbidden(r, role) ==
    /\ Startable(r)
    /\ \E kind \in {"create", "update", "delete"} :
         /\ ~RequireRole(AllowedRoles(kind), role)
         /\ rq' = [rq EXCEPT ![r] = [NoReq EXCEPT !.kind = kind,
                                        !.role = role, !.resp = "403"]]
    /\ pc' = [pc EXCEPT ![r] = "done"]
    /\ UNCHANGED <<db, disk, inTxn, tasks>>

\* ----------------------------------------------------- POST /api/products
\* creations stay within the product ids of the model
RECURSIVE PendingRows(_)
\* the rows that the imports of requests 1..r have still to insert
PendingRows(r) ==
    IF r = 0 THEN 0
    ELSE PendingRows(r - 1) +
         (IF pc[r] \in {"done", "crashed"} THEN 0 ELSE Len(rq[r].rows))

RoomFor(n) ==
    db.seq + Cardinality({s \in Req : rq[s].kind = "create"
                             /\ pc[s] \notin {"done", "crashed"}})
           + PendingRows(MaxReq) + n <= MaxPid

RoomToCreate == RoomFor(1)

ProductReject(r, role) ==
    /\ Startable(r)
    /\ RequireRole(AllowedRoles("create"), role)
    /\ rq' = [rq EXCEPT ![r] = [NoReq EXCEPT !.kind = "create",
                                   !.role = role,
                                   !.resp = "400 validation"]]
    /\ pc' = [pc EXCEPT ![r] = "done"]
    /\ UNCHANGED <<db, disk, inTxn, tasks>>

ProductBegin(r, role, crash) ==
    /\ Startable(r)
    /\ RequireRole(AllowedRoles("create"), role)
    /\ RoomToCreate
    /\ \E q \in AdminQty, rl \in AdminReorder :
         rq' = [rq EXCEPT ![r] = [NoReq EXCEPT !.kind = "create",
                                     !.role = role,
                                     !.qty = q, !.rl = rl]]
    /\ Begin(r, "c_product", crash)

ProductInsert(r, ok) ==
    /\ pc[r] = "c_product"
    /\ IF ok
       THEN /\ Write([db EXCEPT !.products = @ \cup {db.seq + 1},
                                !.seq = @ + 1])
            /\ rq' = [rq EXCEPT ![r].pid = db.seq + 1]
            /\ pc' = [pc EXCEPT ![r] = "c_inventory"]
       ELSE /\ Fail(r, "500 product", "product")
            /\ NoWrite
    /\ UNCHANGED <<inTxn, tasks>>

\* the inventory insert and its callback: the stock movement insert (only
\* when quantity > 0) and COMMIT are issued together, then 201 is sent
ProductInventory(r, ok) ==
    /\ pc[r] = "c_inventory"
    /\ IF ok
       THEN /\ Write([db EXCEPT !.inventory[rq[r].pid] =
                        Append(@, InventoryRow(rq[r].qty, rq[r].rl))])
            /\ rq' = [rq EXCEPT ![r].resp = "201", ![r].prev = 0,
                                ![r].newQ = rq[r].qty]
            /\ pc' = [pc EXCEPT ![r] =
                        IF rq[r].qty > 0 THEN "move_commit" ELSE "commit"]
       ELSE /\ Fail(r, "500 inventory", "inventory")
            /\ NoWrite
    /\ UNCHANGED <<inTxn, tasks>>

\* ------------------------------------------------- PUT /api/products/:id
UpdateBegin(r, role, crash) ==
    /\ Startable(r)
    /\ RequireRole(AllowedRoles("update"), role)
    /\ \E p \in Pid, q \in AdminQty, rl \in AdminReorder :
         rq' = [rq EXCEPT ![r] = [NoReq EXCEPT !.kind = "update",
                                     !.role = role,
                                     !.pid = p, !.qty = q, !.rl = rl]]
    /\ Begin(r, "u_product", crash)

UpdateProduct(r, ok) ==
    /\ pc[r] = "u_product"
    /\ IF ~ok
       THEN Fail(r, "400 update", "product")
       ELSE IF rq[r].pid \notin db.products
       THEN Fail(r, "404 not found", "none")
       ELSE /\ pc' = [pc EXCEPT ![r] = "u_get"]
            /\ UNCHANGED rq
    /\ UNCHANGED <<db, disk, inTxn, tasks>>

UpdateGet(r, ok) ==
    /\ pc[r] = "u_get"
    /\ LET rows == InvRows(db, rq[r].pid)
       IN  IF ~ok
           THEN Fail(r, "500 fetch", "read")
           ELSE /\ rq' = [rq EXCEPT ![r].prev =
                            IF rows # <<>> THEN rows[1].quantity ELSE 0]
                /\ pc' = [pc EXCEPT ![r] = "u_inventory"]
    /\ UNCHANGED <<db, disk, inTxn, tasks>>

\* the inventory update and its callback: the stock movement insert (only
\* when the quantity differs) and COMMIT are issued together, then 200
UpdateInventory(r, ok) ==
    /\ pc[r] = "u_inventory"
    /\ IF ok
       THEN /\ Write(SetInventory(db, rq[r].pid, rq[r].qty, rq[r].rl))
            /\ rq' = [rq EXCEPT ![r].resp = "200", ![r].newQ = rq[r].qty]
            /\ pc' = [pc EXCEPT ![r] =
                        IF rq[r].qty # rq[r].prev THEN "move_commit"
                        ELSE "commit"]
       ELSE /\ Fail(r, "500 inventory", "inventory")
            /\ NoWrite
    /\ UNCHANGED <<inTxn, tasks>>

\* ------------------- the two statements issued without waiting in between
MovementType(kind) == IF kind = "create" THEN "restock" ELSE "adjustment"

\* INSERT INTO stock_movements of product create / update, no callback;
\* it was issued before COMMIT but the handle is in parallel mode, so it
\* runs before or after it
AdminMovement(r, ok, crash) ==
    /\ pc[r] \in {"move_commit", "move"}
    /\ IF ok
       THEN /\ Write([db EXCEPT !.movements = Append(@,
                       MovementRow(rq[r].pid, MovementType(rq[r].kind),
                                   rq[r].newQ - rq[r].prev, rq[r].prev,
                                   rq[r].newQ, 0, r))])
            /\ pc' = [pc EXCEPT ![r] =
                        IF pc[r] = "move_commit" THEN "commit" ELSE "done"]
            /\ UNCHANGED <<inTxn, tasks>>
       ELSE IF crash
       THEN Crash(r)
       ELSE /\ pc' = [pc EXCEPT ![r] =
                        IF pc[r] = "move_commit" THEN "commit" ELSE "done"]
            /\ UNCHANGED <<db, disk, inTxn, tasks>>
    /\ rq' = [rq EXCEPT ![r].failed = IF ok THEN @ ELSE "movement"]

AdminCommit(r, ok, crash) ==
    /\ pc[r] \in {"move_commit", "commit"}
    /\ Commit(r, IF pc[r] = "move_commit" THEN "move" ELSE "done", ok, crash)
    /\ rq' = [rq EXCEPT ![r].failed = IF ok THEN @ ELSE "commit"]

\* ------------------------------------------- POST /api/products/import
\* a row of the uploaded file: with its required fields, or missing some
CsvFiles ==
    UNION {[1..n -> {"valid", "missing"}] : n \in 1..MaxRows}

ValidRows(file) == SelectSeq(file, LAMBDA x : x = "valid")

\* the 'end' handler: authenticateToken only, no requireRole.  forEach
\* pushes an error for each row missing a field and issues the product
\* insert of each other row; then the response is sent, with the
\* insertedCount and the errors of that moment.  `rows` are the rows whose
\* inserts are still to run, `count` and `errs` the insertedCount and the
\* length of errors in the response, `missing` the rows refused by the
\* field test, `inserted` and `dberrs` the product inserts that went
\* through and that failed.
ImportBegin(r, role) ==
    /\ Startable(r)
    /\ \E file \in CsvFiles :
         /\ RoomFor(Len(ValidRows(file)))
         /\ rq' = [rq EXCEPT ![r] = [NoReq EXCEPT !.kind = "import",
                      !.role = role, !.resp = "200",
                      !.rows = ValidRows(file),
                      !.count = 0,
                      !.missing = Len(file) - Len(ValidRows(file)),
                      !.errs = Len(file) - Len(ValidRows(file))]]
         /\ pc' = [pc EXCEPT ![r] =
                     IF ValidRows(file) = <<>> THEN "done" ELSE "i_product"]
    /\ UNCHANGED <<db, disk, inTxn, tasks>>

\* the product insert of the next row and its callback: on error the
\* message is pushed on errors, else the inventory insert is issued and
\* insertedCount incremented (both after the response has gone)
ImportProduct(r, ok) ==
    /\ pc[r] = "i_product"
    /\ IF ok
       THEN /\ Write([db EXCEPT !.products = @ \cup {db.seq + 1},
                                !.seq = @ + 1])
            /\ rq' = [rq EXCEPT ![r].pid = db.seq + 1,
                                ![r].inserted = @ + 1]
            /\ pc' = [pc EXCEPT ![r] = "i_inventory"]
       ELSE /\ NoWrite
            /\ rq' = [rq EXCEPT ![r].dberrs = @ + 1, ![r].rows = Tail(@)]
            /\ pc' = [pc EXCEPT ![r] =
                        IF Len(rq[r].rows) > 1 THEN "i_product" ELSE "done"]
    /\ UNCHANGED <<inTxn, tasks>>

\* the inventory insert of the row, issued without callback
ImportInventory(r, ok, crash) ==
    /\ pc[r] = "i_inventory"
    /\ IF ok
       THEN /\ \E q \in AdminQty, rl \in AdminReorder :
                 Write([db EXCEPT !.inventory[rq[r].pid] =
                          Append(@, InventoryRow(q, rl))])
            /\ pc' = [pc EXCEPT ![r] =
                        IF Len(rq[r].rows) > 1 THEN "i_product" ELSE "done"]
            /\ UNCHANGED <<inTxn, tasks>>
       ELSE IF crash
       THEN Crash(r)
       ELSE /\ pc' = [pc EXCEPT ![r] =
                        IF Len(rq[r].rows) > 1 THEN "i_product" ELSE "done"]
            /\ UNCHANGED <<db, disk, inTxn, tasks>>
    /\ rq' = [rq EXCEPT ![r].rows = Tail(@),
                        ![r].failed = IF ok THEN @ ELSE "inventory"]

\* ------------------------------------------------- GET /api/products/:id
\* one SELECT on the connection, outside any BEGIN of its own; `avail` is
\* the quantity answered (0 for the NULL of a product without inventory)
GetProduct(r, ok) ==
    /\ Startable(r)
    /\ \E p \in Pid :
         rq' = [rq EXCEPT ![r] = [NoReq EXCEPT !.kind = "get", !.pid = p,
                  !.resp = IF ~ok THEN "500 fetch"
                           ELSE IF p \in db.products THEN "200"
                           ELSE "404 not found",
                  !.avail = IF ok /\ p \in db.products
                               /\ InvRows(db, p) # <<>>
                            THEN InvRows(db, p)[1].quantity ELSE 0]]
    /\ pc' = [pc EXCEPT ![r] = "done"]
    /\ UNCHANGED <<db, disk, inTxn, tasks>>

\* ---------------------------------------------- DELETE /api/products/:id
\* foreign keys are not switched on for the connection: the products row
\* goes and nothing else
\* the deletion that takes the sales and stock movements of the product
\* with it
DeleteCascade(d, p) ==
    [d EXCEPT !.products = @ \ {p},
              !.sales = SelectSeq(@, LAMBDA x : x.product_id # p),
              !.movements = SelectSeq(@, LAMBDA x : x.product_id # p)]

DeleteFrom(d, p) == [d EXCEPT !.products = @ \ {p}]

DeleteProduct(r, role, ok) ==
    /\ Startable(r)
    /\ RequireRole(AllowedRoles("delete"), role)
    /\ \E p \in Pid :
         /\ IF ok /\ p \in db.products
            THEN Write(DeleteFrom(db, p))
            ELSE NoWrite
         /\ rq' = [rq EXCEPT ![r] = [NoReq EXCEPT !.kind = "delete",
                      !.role = role, !.pid = p,
                      !.resp = IF ~ok THEN "500 delete"
                               ELSE IF p \in db.products THEN "200"
                               ELSE "404 not found"]]
    /\ pc' = [pc EXCEPT ![r] = "done"]
    /\ UNCHANGED <<inTxn, tasks>>

\* -------------------------------------------- PUT /api/alerts/:id/resolve
Resolved(a, r) == [a EXCEPT !.status = "resolved", !.resolved = r]

\* UPDATE alerts SET ... WHERE id = ?: the row is chosen by its id alone
ResolveAlert(r, ok) ==
    /\ Startable(r)
    /\ \E id \in 1..(Len(db.alerts) + 1) :
         /\ IF ok /\ id <= Len(db.alerts)
            THEN Write([db EXCEPT !.alerts[id] = Resolved(@, r)])
            ELSE NoWrite
         /\ rq' = [rq EXCEPT ![r] = [NoReq EXCEPT !.kind = "resolve",
                      !.alertId = id,
                      !.resp = IF ~ok THEN "500 resolve"
                               ELSE IF id <= Len(db.alerts) THEN "200"
                               ELSE "404 not found"]]
    /\ pc' = [pc EXCEPT ![r] = "done"]
    /\ UNCHANGED <<inTxn, tasks>>

\* ------------------------------------------------------ the specifications
Next ==
    \/ \E r \in Req : SaleReject(r)
    \/ \E r \in Req, crash \in BOOLEAN : SaleBegin(r, crash)
    \/ \E r \in Req, ok \in BOOLEAN : SaleGet(r, ok)
    \/ \E r \in Req, ok \in BOOLEAN : SaleInsert(r, ok)
    \/ \E r \in Req, ok \in BOOLEAN : SaleUpdate(r, ok)
    \/ \E r \in Req, ok \in BOOLEAN : SaleMovement(r, ok)
    \/ \E r \in Req, ok \in BOOLEAN, crash \in BOOLEAN : SaleCommit(r, ok, crash)
    \/ \E r \in Req, crash \in BOOLEAN : Rollback(r, crash)
    \/ \E i \in 1..Len(tasks), ok \in BOOLEAN : AlertGet(i, ok)
    \/ \E i \in 1..Len(tasks), ok \in BOOLEAN : AlertProduct(i, ok)
    \/ \E i \in 1..Len(tasks), ok \in BOOLEAN : AlertInsert(i, ok)
    \/ \E r \in Req, ok \in BOOLEAN : DailyStockCheck(r, ok)
    \/ \E r \in Req : ProductReject(r, "admin")
    \/ \E r \in Req, crash \in BOOLEAN : ProductBegin(r, "admin", crash)
    \/ \E r \in Req, ok \in BOOLEAN : ProductInsert(r, ok)
    \/ \E r \in Req, ok \in BOOLEAN : ProductInventory(r, ok)
    \/ \E r \in Req, crash \in BOOLEAN : UpdateBegin(r, "admin", crash)
    \/ \E r \in Req, ok \in BOOLEAN : UpdateProduct(r, ok)
    \/ \E r \in Req, ok \in BOOLEAN : UpdateGet(r, ok)
    \/ \E r \in Req, ok \in BOOLEAN : UpdateInventory(r, ok)
    \/ \E r \in Req, ok \in BOOLEAN, crash \in BOOLEAN : AdminMovement(r, ok, crash)
    \/ \E r \in Req, ok \in BOOLEAN, crash \in BOOLEAN : AdminCommit(r, ok, crash)
    \/ \E r \in Req, ok \in BOOLEAN : DeleteProduct(r, "admin", ok)
    \/ \E r \in Req, ok \in BOOLEAN : ResolveAlert(r, ok)
    \/ \E r \in Req, ok \in BOOLEAN : GetProduct(r, ok)

Spec == Init /\ [][Next]_vars

\* sale requests against product 1 only, interleaved at will, any
\* statement may fail
NextSales ==
    \/ \E r \in Req : SaleReject(r)
    \/ \E r \in Req, crash \in BOOLEAN : SaleBeginFor({1}, r, crash)
    \/ \E r \in Req, ok \in BOOLEAN : SaleGet(r, ok)
    \/ \E r \in Req, ok \in BOOLEAN : SaleInsert(r, ok)
    \/ \E r \in Req, ok \in BOOLEAN : SaleUpdate(r, ok)
    \/ \E r \in Req, ok \in BOOLEAN : SaleMovement(r, ok)
    \/ \E r \in Req, ok \in BOOLEAN, crash \in BOOLEAN : SaleCommit(r, ok, crash)
    \/ \E r \in Req, crash \in BOOLEAN : Rollback(r, crash)
    \/ \E i \in 1..Len(tasks), ok \in BOOLEAN : AlertGet(i, ok)
    \/ \E i \in 1..Len(tasks), ok \in BOOLEAN : AlertProduct(i, ok)
    \/ \E i \in 1..Len(tasks), ok \in BOOLEAN : AlertInsert(i, ok)

SpecSales == Init /\ [][NextSales]_vars

\* one request at a time, every statement succeeding
NextSeq ==
    \/ \E r \in Req : Quiescent /\ SaleReject(r)
    \/ \E r \in Req : Quiescent /\ SaleBegin(r, FALSE)
    \/ \E r \in Req : SaleGet(r, TRUE)
    \/ \E r \in Req : SaleInsert(r, TRUE)
    \/ \E r \in Req : SaleUpdate(r, TRUE)
    \/ \E r \in Req : SaleMovement(r, TRUE)
    \/ \E r \in Req : SaleCommit(r, TRUE, FALSE)
    \/ \E r \in Req : Rollback(r, FALSE)
    \/ \E i \in 1..Len(tasks) : AlertGet(i, TRUE)
    \/ \E i \in 1..Len(tasks) : AlertProduct(i, TRUE)
    \/ \E i \in 1..Len(tasks) : AlertInsert(i, TRUE)
    \/ \E r \in Req : Quiescent /\ DailyStockCheck(r, TRUE)
    \/ \E r \in Req, role \in Roles : Quiescent /\ ProductReject(r, role)
    \/ \E r \in Req, role \in Roles : Quiescent /\ ProductBegin(r, role, FALSE)
    \/ \E r \in Req : ProductInsert(r, TRUE)
    \/ \E r \in Req : ProductInventory(r, TRUE)
    \/ \E r \in Req, role \in Roles : Quiescent /\ UpdateBegin(r, role, FALSE)
    \/ \E r \in Req : UpdateProduct(r, TRUE)
    \/ \E r \in Req : UpdateGet(r, TRUE)
    \/ \E r \in Req : UpdateInventory(r, TRUE)
    \/ \E r \in Req : AdminMovement(r, TRUE, FALSE)
    \/ \E r \in Req : AdminCommit(r, TRUE, FALSE)
    \/ \E r \in Req, role \in Roles : Quiescent /\ DeleteProduct(r, role, TRUE)
    \/ \E r \in Req, role \in Roles : Quiescent /\ Forbidden(r, role)
    \/ \E r \in Req, role \in Roles : Quiescent /\ ImportBegin(r, role)
    \/ \E r \in Req : ImportProduct(r, TRUE)
    \/ \E r \in Req : ImportInventory(r, TRUE, FALSE)
    \/ \E r \in Req : Quiescent /\ ResolveAlert(r, TRUE)
    \/ \E r \in Req : Quiescent /\ GetProduct(r, TRUE)

SpecSeq == Init /\ [][NextSeq]_vars

\* one request at a time, any statement may fail
NextFault ==
    \/ \E r \in Req : Quiescent /\ SaleReject(r)
    \/ \E r \in Req, crash \in BOOLEAN : Quiescent /\ SaleBegin(r, crash)
    \/ \E r \in Req, ok \in BOOLEAN : SaleGet(r, ok)
    \/ \E r \in Req, ok \in BOOLEAN : SaleInsert(r, ok)
    \/ \E r \in Req, ok \in BOOLEAN : SaleUpdate(r, ok)
    \/ \E r \in Req, ok \in BOOLEAN : SaleMovement(r, ok)
    \/ \E r \in Req, ok \in BOOLEAN, crash \in BOOLEAN : SaleCommit(r, ok, crash)
    \/ \E r \in Req, crash \in BOOLEAN : Rollback(r, crash)
    \/ \E i \in 1..Len(tasks), ok \in BOOLEAN : AlertGet(i, ok)
    \/ \E i \in 1..Len(tasks), ok \in BOOLEAN : AlertProduct(i, ok)
    \/ \E i \in 1..Len(tasks), ok \in BOOLEAN : AlertInsert(i, ok)
    \/ \E r \in Req, ok \in BOOLEAN : Quiescent /\ DailyStockCheck(r, ok)
    \/ \E r \in Req : Quiescent /\ ProductReject(r, "admin")
    \/ \E r \in Req, crash \in BOOLEAN :
          Quiescent /\ ProductBegin(r, "admin", crash)
    \/ \E r \in Req, ok \in BOOLEAN : ProductInsert(r, ok)
    \/ \E r \in Req, ok \in BOOLEAN : ProductInventory(r, ok)
    \/ \E r \in Req, crash \in BOOLEAN :
          Quiescent /\ UpdateBegin(r, "admin", crash)
    \/ \E r \in Req, ok \in BOOLEAN : UpdateProduct(r, ok)
    \/ \E r \in Req, ok \in BOOLEAN : UpdateGet(r, ok)
    \/ \E r \in Req, ok \in BOOLEAN : UpdateInventory(r, ok)
    \/ \E r \in Req, ok \in BOOLEAN, crash \in BOOLEAN : AdminMovement(r, ok, crash)
    \/ \E r \in Req, ok \in BOOLEAN, crash \in BOOLEAN : AdminCommit(r, ok, crash)
    \/ \E r \in Req, ok \in BOOLEAN :
          Quiescent /\ DeleteProduct(r, "admin", ok)
    \/ \E r \in Req : Quiescent /\ ImportBegin(r, "staff")
    \/ \E r \in Req, ok \in BOOLEAN : ImportProduct(r, ok)
    \/ \E r \in Req, ok \in BOOLEAN, crash \in BOOLEAN :
          ImportInventory(r, ok, crash)
    \/ \E r \in Req, ok \in BOOLEAN : Quiescent /\ ResolveAlert(r, ok)
    \/ \E r \in Req, ok \in BOOLEAN : Quiescent /\ GetProduct(r, ok)

SpecFault == Init /\ [][NextFault]_vars

\* the statements and callbacks of the handlers that open a transaction,
\* any of them may fail; the statements of the alert evaluation succeed
ProgressLive ==
    \/ \E r \in Req, ok \in BOOLEAN : SaleGet(r, ok)
    \/ \E r \in Req, ok \in BOOLEAN : SaleInsert(r, ok)
    \/ \E r \in Req, ok \in BOOLEAN : SaleUpdate(r, ok)
    \/ \E r \in Req, ok \in BOOLEAN : SaleMovement(r, ok)
    \/ \E r \in Req, ok \in BOOLEAN, crash \in BOOLEAN : SaleCommit(r, ok, crash)
    \/ \E r \in Req, crash \in BOOLEAN : Rollback(r, crash)
    \/ \E i \in 1..Len(tasks) : AlertGet(i, TRUE)
    \/ \E i \in 1..Len(tasks) : AlertProduct(i, TRUE)
    \/ \E i \in 1..Len(tasks) : AlertInsert(i, TRUE)
    \/ \E r \in Req, ok \in BOOLEAN : ProductInsert(r, ok)
    \/ \E r \in Req, ok \in BOOLEAN : ProductInventory(r, ok)
    \/ \E r \in Req, ok \in BOOLEAN : UpdateProduct(r, ok)
    \/ \E r \in Req, ok \in BOOLEAN : UpdateGet(r, ok)
    \/ \E r \in Req, ok \in BOOLEAN : UpdateInventory(r, ok)
    \/ \E r \in Req, ok \in BOOLEAN, crash \in BOOLEAN : AdminMovement(r, ok, crash)
    \/ \E r \in Req, ok \in BOOLEAN, crash \in BOOLEAN : AdminCommit(r, ok, crash)

\* sales, product creations, updates and deletions, one request at a time
NextLive ==
    \/ \E r \in Req, crash \in BOOLEAN : Quiescent /\ SaleBegin(r, crash)
    \/ \E r \in Req, crash \in BOOLEAN :
          Quiescent /\ ProductBegin(r, "admin", crash)
    \/ \E r \in Req, crash \in BOOLEAN :
          Quiescent /\ UpdateBegin(r, "admin", crash)
    \/ \E r \in Req : Quiescent /\ DeleteProduct(r, "admin", TRUE)
    \/ ProgressLive

\* a statement handed to the connection is executed and its callback
\* called: sqlite3 runs the queued statements on its thread pool and the
\* event loop delivers their callbacks
SpecLive == Init /\ [][NextLive]_vars /\ WF_vars(ProgressLive)

\* --------------------------------- the seeding script, on its own connection
\* quantities the inventory may hold when the script is run
SeedStock == {-60, 5, 40}

SeedPid == 1..3

sampleMovements ==
    << [productId |-> 1, type |-> "restock", change |-> 50],
       [productId |-> 2, type |-> "restock", change |-> 30],
       [productId |-> 3, type |-> "restock", change |-> 75],
       [productId |-> 1, type |-> "sale", change |-> -25],
       [productId |-> 2, type |-> "sale", change |-> -25],
       [productId |-> 3, type |-> "sale", change |-> -30] >>

\* Math.max(0, previousQuantity + change)
SeedNewQuantity(previousQuantity, change) ==
    IF previousQuantity + change > 0 THEN previousQuantity + change ELSE 0

\* the locals of createSampleStockMovements: `i` is the position of the
\* for loop in sampleMovements
SeedLocals ==
    [kind |-> "seed", i |-> 1, previousQuantity |-> 0, newQuantity |-> 0,
     createdCount |-> 0]

\* request slot 1 runs the script; each product has an inventory row with
\* some quantity, or none
InitSeed ==
    /\ \E has \in SUBSET SeedPid, inv \in [SeedPid -> SeedStock] :
         db = [start |-> <<0, 0>>, products |-> SeedPid, seq |-> 3,
               inventory |-> [p \in SeedPid |->
                   IF p \in has THEN <<InventoryRow(inv[p], 10)>>
                   ELSE <<>>],
               sales |-> <<>>, movements |-> <<>>, alerts |-> <<>>]
    /\ disk = db
    /\ inTxn = FALSE
    /\ pc = [r \in Req |-> IF r = 1 THEN "m_start" ELSE "idle"]
    /\ rq = [r \in Req |-> IF r = 1 THEN SeedLocals ELSE NoReq]
    /\ tasks = <<>>

\* getUserByUsername('admin'): without admin user nothing is created
SeedStart(admin) ==
    /\ pc[1] = "m_start"
    /\ pc' = [pc EXCEPT ![1] = IF admin THEN "m_get" ELSE "done"]
    /\ UNCHANGED <<db, disk, inTxn, rq, tasks>>

\* `continue`, the catch block, or the end of the loop body
SeedNext(q) ==
    /\ rq' = [rq EXCEPT ![1] = [q EXCEPT !.i = @ + 1]]
    /\ pc' = [pc EXCEPT ![1] =
                IF q.i < Len(sampleMovements) THEN "m_get" ELSE "done"]

SeedGet(ok) ==
    /\ pc[1] = "m_get"
    /\ LET m == sampleMovements[rq[1].i]
           rows == InvRows(db, m.productId)
       IN  IF ~ok \/ rows = <<>>
           THEN SeedNext(rq[1])
           ELSE /\ rq' = [rq EXCEPT
                     ![1].previousQuantity = rows[1].quantity,
                     ![1].newQuantity =
                         SeedNewQuantity(rows[1].quantity, m.change)]
                /\ pc' = [pc EXCEPT ![1] = "m_insert"]
    /\ UNCHANGED <<db, disk, inTxn, tasks>>

SeedInsert(ok) ==
    /\ pc[1] = "m_insert"
    /\ LET m == sampleMovements[rq[1].i]
       IN  IF ok
           THEN /\ Write([db EXCEPT !.movements = Append(@,
                     MovementRow(m.productId, m.type, m.change,
                                 rq[1].previousQuantity, rq[1].newQuantity,
                                 0, 1))])
                /\ pc' = [pc EXCEPT ![1] = "m_update"]
                /\ UNCHANGED rq
           ELSE /\ NoWrite
                /\ SeedNext(rq[1])
    /\ UNCHANGED <<inTxn, tasks>>

SeedUpdate(ok) ==
    /\ pc[1] = "m_update"
    /\ LET m == sampleMovements[rq[1].i]
       IN  IF ok
           THEN /\ Write(SetQuantity(db, m.productId, rq[1].newQuantity))
                /\ SeedNext([rq[1] EXCEPT !.createdCount = @ + 1])
           ELSE /\ NoWrite
                /\ SeedNext(rq[1])
    /\ UNCHANGED <<inTxn, tasks>>

NextSeed ==
    \/ \E admin \in BOOLEAN : SeedStart(admin)
    \/ \E ok \in BOOLEAN : SeedGet(ok)
    \/ \E ok \in BOOLEAN : SeedInsert(ok)
    \/ \E ok \in BOOLEAN : SeedUpdate(ok)

SpecSeed == InitSeed /\ [][NextSeed]_vars

\* ------------------------------------------------------------- vocabulary
IsSale(r) == rq[r].kind = "sale"

Succeeded(r) == IsSale(r) /\ rq[r].resp = "201"

Finished(r) == pc[r] \in {"done", "crashed"}

\* no request was started after r
Latest(r) == \A s \in Req : s > r => pc[s] = "idle"

\* r is the only request ever started
Alone(r) == \A s \in Req : s # r => pc[s] = "idle"

\* only sales (and stock checks, which write no inventory) were requested
OnlySales == \A r \in Req : rq[r].kind \in {"none", "sale", "cron"}

TasksOf(r) == {i \in 1..Len(tasks) : tasks[i].by = r}

\* the handler and the alert evaluation it started have run to their end
Completed(r) ==
    /\ pc[r] = "done"
    /\ \A i \in TasksOf(r) : tasks[i].pc = "done"

By(rows, r) == {i \in 1..Len(rows) : rows[i].by = r}

NonNegative(d) ==
    \A p \in Pid : \A i \in 1..Len(InvRows(d, p)) :
        InvRows(d, p)[i].quantity >= 0

\* the committed quantity of product p (it has one inventory row)
Stored(p) == InvRows(disk, p)[1].quantity

RECURSIVE SoldUpTo(_, _)
\* sum of quantity_sold over the successful sales of p among requests 1..r
SoldUpTo(p, r) ==
    IF r = 0 THEN 0
    ELSE SoldUpTo(p, r - 1) +
         (IF Succeeded(r) /\ rq[r].pid = p THEN rq[r].qty ELSE 0)

\* the stock movements of product p, oldest first
MovementsOf(d, p) ==
    LET idx == {i \in 1..Len(d.movements) : d.movements[i].product_id = p}
        RECURSIVE Pick(_)
        Pick(i) == IF i > Len(d.movements) THEN <<>>
                   ELSE (IF i \in idx THEN <<d.movements[i]>> ELSE <<>>)
                        \o Pick(i + 1)
    IN  Pick(1)

\* the quantity product p had before any movement
StartQuantity(d, p) == IF p = 1 THEN d.start[1] ELSE 0

Paired(d, p) ==
    LET ms == MovementsOf(d, p)
        last == IF ms = <<>> THEN StartQuantity(d, p)
                ELSE ms[Len(ms)].new_quantity
    IN  /\ \A i \in 1..Len(ms) :
              /\ ms[i].new_quantity =
                     ms[i].previous_quantity + ms[i].quantity_change
              /\ ms[i].previous_quantity =
                     IF i = 1 THEN StartQuantity(d, p)
                     ELSE ms[i - 1].new_quantity
        /\ \A i \in 1..Len(InvRows(d, p)) : InvRows(d, p)[i].quantity = last
        /\ InvRows(d, p) = <<>> => ms = <<>>

\* ------------------------------------------------------------------ claims

\* C1: under any interleaving of sale requests against a product whose
\* quantity starts >= 0, the inventory quantity is never negative, neither
\* as committed nor as seen on the connection.
C1_QuantityNeverNegative ==
    NonNegative(db) /\ NonNegative(disk)

\* two sales passed the availability check on the same stale quantity and
\* together sold more than there was
C1_Witness ==
    \E r1, r2 \in Req :
        /\ r1 # r2
        /\ Succeeded(r1) /\ Succeeded(r2)
        /\ pc[r1] = "done" /\ pc[r2] = "done"
        /\ rq[r1].pid = rq[r2].pid
        /\ rq[r1].prev = rq[r2].prev
        /\ rq[r1].qty + rq[r2].qty > rq[r1].prev
        /\ NonNegative(disk)

\* C2: once all concurrent sale calls against product 1 have finished, the
\* stored quantity is the initial quantity minus the sum of quantitySold
\* over the calls that reported success.
C2_NoLostUpdate ==
    (OnlySales /\ \A r \in Req : pc[r] = "idle" \/ Finished(r))
        => Stored(1) = disk.start[1] - SoldUpTo(1, MaxReq)

\* C3: two concurrent sales of one product are never both between their
\* availability check and their inventory write; two concurrent sales of 6
\* against quantity 10, no statement failing, end with exactly one success,
\* the other InsufficientStock, and quantity 4.
C3_SalesSerialized ==
    \A r1, r2 \in Req :
        (r1 # r2 /\ IsSale(r1) /\ IsSale(r2) /\ rq[r1].pid = rq[r2].pid)
        => /\ ~(pc[r1] \in {"s_insert", "s_update"}
                /\ pc[r2] \in {"s_insert", "s_update"})
           /\ (/\ db.start[1] = 10 /\ rq[r1].pid = 1
               /\ rq[r1].qty = 6 /\ rq[r2].qty = 6
               /\ rq[r1].failed = "none" /\ rq[r2].failed = "none"
               /\ Finished(r1) /\ Finished(r2)
               /\ \A s \in Req \ {r1, r2} : pc[s] = "idle")
              => /\ Stored(1) = 4
                 /\ \/ Succeeded(r1) /\ rq[r2].resp = "400 insufficient"
                    \/ Succeeded(r2) /\ rq[r1].resp = "400 insufficient"

\* C4: a sale one of whose writes (sale insert, inventory update, stock
\* movement insert) failed reports failure and leaves no sale row, no
\* stock movement row and no inventory change behind.
C4_AllOrNothing ==
    \A r \in Req :
        (/\ IsSale(r) /\ pc[r] = "done" /\ Alone(r)
         /\ rq[r].failed \in {"sale", "inventory", "movement"})
        => /\ rq[r].resp # "201"
           /\ By(disk.sales, r) = {}
           /\ By(disk.movements, r) = {}
           /\ Stored(1) = disk.start[1]

\* C5: in every committed state reached by sales, product creations and
\* product updates, each change of an inventory quantity has exactly one
\* stock movement, with new_quantity = previous_quantity + quantity_change.
C5_Pairing ==
    Quiescent => \A p \in Pid : Paired(disk, p)

C8_QuantityNonNegative ==
    NonNegative(disk)

\* C9: createLowStockAlert inserts nothing while an active low_stock or
\* out_of_stock alert exists for the product, so successive sales and
\* stock checks never leave two active alerts with the same product and
\* type.
C9_NoDuplicateActiveAlert ==
    \A i, j \in 1..Len(db.alerts) :
        (/\ i < j
         /\ db.alerts[i].product_id = db.alerts[j].product_id
         /\ db.alerts[i].alert_type = db.alerts[j].alert_type
         /\ db.alerts[i].status = "active")
        => db.alerts[j].status # "active"

\* the sale r, the latest request, found no active alert of its (existing)
\* product, and its own alert evaluation is over
FreshAlertCase(r) ==
    /\ Succeeded(r) /\ Completed(r) /\ Latest(r)
    /\ rq[r].pid \in db.products
    /\ \A i \in 1..Len(db.alerts) :
          db.alerts[i].product_id = rq[r].pid
              => db.alerts[i].by = r \/ db.alerts[i].status # "active"

\* exactly one alert of the sale r, of the given type and priority
OneAlert(r, type, prio) ==
    /\ Cardinality(By(disk.alerts, r)) = 1
    /\ \A i \in By(disk.alerts, r) :
          /\ disk.alerts[i].product_id = rq[r].pid
          /\ disk.alerts[i].alert_type = type
          /\ disk.alerts[i].priority = prio
          /\ disk.alerts[i].status = "active"

C11_ResolveOnlyActive ==
    [][\A r \in Req :
          (pc[r] = "idle" /\ rq'[r].kind = "resolve")
          => LET id == rq'[r].alertId
             IN  (id > Len(db.alerts) \/ db.alerts[id].status # "active")
                 => /\ rq'[r].resp = "404 not found"
                    /\ db'.alerts = db.alerts]_vars

\* ------------------------------------------------------- sale validation
InvalidSaleInput(q) == q.pid = 0 \/ q.qty <= 0 \/ ~q.price

\* C12: a sale whose product id is missing, whose quantity is missing or
\* not positive, or whose price is absent is answered with the validation
\* error at once: no transaction is opened, nothing is read or written and
\* no alert evaluation is started.
C12_InvalidSaleRejected ==
    [][\A r \in Req :
          (pc[r] = "idle" /\ rq'[r].kind = "sale" /\ InvalidSaleInput(rq'[r]))
          => /\ pc'[r] = "done"
             /\ rq'[r].resp = "400 validation"
             /\ UNCHANGED <<db, disk, inTxn, tasks>>]_vars

\* a sale of -1 units was rejected
C12_Witness ==
    \E r \in Req :
        /\ IsSale(r) /\ pc[r] = "done"
        /\ rq[r].pid = 1 /\ rq[r].qty = -1 /\ rq[r].price
        /\ rq[r].resp = "400 validation"

\* -------------------------------------------- sale without inventory row
\* C13: a sale for a product id without inventory row is answered with
\* the not-found error; a sale answered so has written no sale, stock
\* movement or alert row and started no alert evaluation, and once its
\* handler is through its transaction is rolled back: none is open and the
\* connection shows the committed state.
C13_NoInventoryRow ==
    [][\A r \in Req :
          /\ (pc[r] = "s_get" /\ pc'[r] # "crashed"
                 /\ InvRows(db, rq[r].pid) = <<>>)
             => rq'[r].resp = "400 not found"
          /\ (IsSale(r)' /\ rq'[r].resp = "400 not found")
             => /\ By(db'.sales, r) = {}
                /\ By(db'.movements, r) = {}
                /\ By(db'.alerts, r) = {}
                /\ \A i \in 1..Len(tasks') : tasks'[i].by # r
                /\ (pc[r] # "done" /\ pc'[r] = "done")
                   => ~inTxn' /\ db' = disk /\ disk' = disk]_vars

\* a sale for product 2, which has no inventory row, was refused and
\* rolled back
C13_Witness ==
    \E r \in Req :
        /\ IsSale(r) /\ pc[r] = "done"
        /\ rq[r].pid = 2 /\ InvRows(db, 2) = <<>>
        /\ rq[r].resp = "400 not found" /\ rq[r].failed = "none"
        /\ ~inTxn

\* ---------------------------------------------- failing alert evaluation
\* the alert evaluation i of a sale fails in this step
AlertFails(i) ==
    /\ i <= Len(tasks')
    /\ ~tasks[i].failed /\ tasks'[i].failed
    /\ IsSale(tasks[i].by)

\* C14: a failing step of the alert evaluation of a sale (alert lookup,
\* product lookup or alert insert) ends the evaluation and changes nothing
\* else: the sale has answered 201 and keeps that answer, no table of the
\* connection or of the committed state changes, the handler stays where it
\* is, and no further evaluation is started; a sale whose COMMIT went
\* through keeps its sale row and its stock movement committed.
C14_AlertFailureIgnored ==
    [][\A i \in 1..Len(tasks) :
          AlertFails(i)
          => LET r == tasks[i].by
             IN  /\ rq[r].resp = "201" /\ rq' = rq
                 /\ db' = db /\ disk' = disk
                 /\ pc' = pc
                 /\ Len(tasks') = Len(tasks)
                 /\ tasks'[i].pc = "done"
                 /\ Cardinality(TasksOf(r)) = 1
                 /\ (pc[r] = "done" /\ rq[r].failed = "none")
                    => /\ By(disk'.sales, r) # {}
                       /\ By(disk'.movements, r) # {}]_vars

\* a committed sale whose alert insert failed: 201, rows committed, no alert
C14_Witness ==
    \E r \in Req :
        /\ Succeeded(r) /\ Completed(r) /\ rq[r].failed = "none"
        /\ \E i \in TasksOf(r) : tasks[i].failed
        /\ By(disk.sales, r) # {} /\ By(disk.movements, r) # {}
        /\ By(disk.alerts, r) = {}
        /\ Stored(rq[r].pid) = rq[r].newQ

\* ------------------------------------------------------- failing COMMIT
\* C15: a sale whose COMMIT failed answers with an error, not with 201,
\* and none of its rows is committed; a sale answers 201 only once its
\* COMMIT has gone through.
C15_CommitFailureReported ==
    \A r \in Req :
        /\ (IsSale(r) /\ rq[r].failed = "commit")
           => /\ rq[r].resp # "201"
              /\ By(disk.sales, r) = {}
              /\ By(disk.movements, r) = {}
        /\ Succeeded(r) => pc[r] = "done"

\* ------------------------------------------------------------ dirty reads
\* request r reads the inventory row of its product in this step
ReadsInventory(r) ==
    \/ pc[r] = "idle" /\ rq'[r].kind = "get" /\ rq'[r].resp = "200"
    \/ pc[r] = "s_get" /\ pc'[r] \in {"s_insert", "rollback"}
                       /\ rq'[r].failed = "none"
    \/ pc[r] = "u_get" /\ pc'[r] = "u_inventory"

\* C16: with sales and reads only, whatever their interleaving on the
\* shared connection, the inventory row a request reads is the committed
\* one: never a quantity written by a sale whose transaction is still open.
C16_ReadsCommitted ==
    [][\A r \in Req :
          (ReadsInventory(r)
             /\ \A s \in Req \ {r} : rq[s].kind \in {"none", "sale", "get"})
          => InvRows(db, rq'[r].pid) = InvRows(disk, rq'[r].pid)]_vars

\* ------------------------------------------------- administrative update
\* the committed quantity of product p changes in this step
QuantityCommitted(p) ==
    /\ InvRows(disk, p) # <<>> /\ InvRows(disk', p) # <<>>
    /\ InvRows(disk', p)[1].quantity # InvRows(disk, p)[1].quantity

\* C17: while an update request is handled (one request at a time), a
\* step commits a changed quantity of its product exactly when it commits
\* the stock movement of the request, and that movement is an adjustment
\* from the old committed quantity to the requested one.
C17_UpdateAtomic ==
    [][\A r \in Req :
          (rq[r].kind = "update" /\ pc[r] \notin {"done", "crashed"})
          => LET p == rq[r].pid
                 new == By(disk'.movements, r) \ By(disk.movements, r)
             IN  /\ QuantityCommitted(p) <=> new # {}
                 /\ \A i \in new :
                       disk'.movements[i] =
                           MovementRow(p, "adjustment",
                               rq[r].qty - InvRows(disk, p)[1].quantity,
                               InvRows(disk, p)[1].quantity, rq[r].qty, 0, r)]_vars

\* ------------------------------------------------------- alert status
\* this step is the resolve request of r for alert i going through
ResolveStep(r, i) ==
    /\ pc[r] = "idle" /\ rq'[r].kind = "resolve"
    /\ rq'[r].alertId = i /\ rq'[r].resp = "200"

\* C18: on the connection an existing alert leaves the active status only
\* in the step of a resolve request for it; in the committed state the
\* status of an existing alert changes only to resolved, and only as the
\* effect of a resolve request for it.  No step of a sale, a product
\* creation, an update, a deletion, a stock check or an alert evaluation
\* does either.
C18_OnlyResolveLeavesActive ==
    [][/\ \A i \in 1..Len(db.alerts) :
             (i <= Len(db'.alerts) /\ db.alerts[i].status = "active"
                 /\ db'.alerts[i].status # "active")
             => \E r \in Req : ResolveStep(r, i)
       /\ \A i \in 1..Len(disk.alerts) :
             (i <= Len(disk'.alerts)
                 /\ disk'.alerts[i].status # disk.alerts[i].status)
             => /\ disk'.alerts[i].status = "resolved"
                /\ \E r \in Req :
                      /\ disk'.alerts[i].resolved = r
                      /\ rq'[r].kind = "resolve" /\ rq'[r].alertId = i]_vars

\* the alert raised by a sale is still active after product 1 was
\* restocked above its reorder level by a later update
C18_Witness ==
    \E r, s \in Req :
        /\ r < s /\ Succeeded(r) /\ rq[r].pid = 1
        /\ rq[s].kind = "update" /\ rq[s].pid = 1 /\ rq[s].resp = "200"
        /\ pc[s] = "done" /\ rq[s].qty > rq[s].rl
        /\ InvRows(disk, 1)[1].quantity = rq[s].qty
        /\ \E i \in By(disk.alerts, r) : disk.alerts[i].status = "active"

\* ------------------------------------------------------------ append-only
IsPrefix(a, b) == Len(a) <= Len(b) /\ SubSeq(b, 1, Len(a)) = a

\* C19: the committed sale rows and the committed stock movement rows are
\* append-only: every step of every operation leaves the rows committed
\* before it as they are, in place, and at most adds rows after them.
C19_AppendOnly ==
    [][/\ IsPrefix(disk.sales, disk'.sales)
       /\ IsPrefix(disk.movements, disk'.movements)]_vars

\* the rows of a sale are still committed after its product was deleted
C19_Witness ==
    \E r, s \in Req :
        /\ r < s /\ Succeeded(r)
        /\ rq[s].kind = "delete" /\ rq[s].pid = rq[r].pid
        /\ rq[s].resp = "200" /\ rq[r].pid \notin disk.products
        /\ By(disk.sales, r) # {} /\ By(disk.movements, r) # {}

\* ---------------------------------------------- when the alert is evaluated
\* C20: the reorder level and the new quantity of a sale come from the
\* inventory row read in its first step; a sale that answered 201 carries
\* the low-stock flag, and has started its one alert evaluation (for its
\* product, with that new quantity and reorder level), exactly when
\* newQuantity <= reorderLevel, equality included.
C20_AlertIffLow ==
    [][\A r \in Req :
          /\ (pc[r] = "s_get" /\ pc'[r] = "s_insert")
             => LET row == InvRows(db, rq[r].pid)[1]
                IN  /\ rq'[r].rowRl = row.reorder_level
                    /\ rq'[r].newQ = row.quantity - rq[r].qty
          /\ Succeeded(r)'
             => LET low == rq'[r].newQ <= rq'[r].rowRl
                    mine == {i \in 1..Len(tasks') : tasks'[i].by = r}
                IN  /\ rq'[r].low <=> low
                    /\ mine # {} <=> low
                    /\ Cardinality(mine) <= 1
                    /\ \A i \in mine :
                          /\ tasks'[i].pid = rq'[r].pid
                          /\ tasks'[i].q = rq'[r].newQ
                          /\ tasks'[i].rl = rq'[r].rowRl]_vars

\* quantity 10, reorder level 4, sell 6: new quantity 4 equals the reorder
\* level, the flag is set and the evaluation was started
C20_Witness ==
    \E r \in Req :
        /\ Succeeded(r) /\ pc[r] = "done" /\ rq[r].failed = "none"
        /\ rq[r].prev = 10 /\ rq[r].qty = 6
        /\ rq[r].newQ = 4 /\ rq[r].rowRl = 4
        /\ rq[r].low /\ TasksOf(r) # {}

\* ------------------------------------------------------------ access control
\* the step of request r changes the products or the inventory records
ChangesCatalogue(r) ==
    /\ pc'[r] # pc[r]
    /\ db'.products # db.products \/ db'.inventory # db.inventory

\* C21: a request other than a sale that creates, changes or deletes a
\* product or an inventory record comes from an admin or a manager, and
\* from an admin when it deletes a product; a request of a staff user to
\* the create, update, delete or import route is answered 403 at once and
\* changes nothing.
C21_RoleBasedAccess ==
    [][\A r \in Req :
          /\ (ChangesCatalogue(r) /\ rq'[r].kind # "sale")
             => rq'[r].role \in
                   (IF db.products \subseteq db'.products
                    THEN {"admin", "manager"} ELSE {"admin"})
          /\ (pc[r] = "idle" /\ rq'[r].role = "staff"
                 /\ rq'[r].kind \in {"create", "update", "delete", "import"})
             => /\ rq'[r].resp = "403" /\ pc'[r] = "done"
                /\ UNCHANGED <<db, disk, inTxn, tasks>>]_vars

\* -------------------------------------------------------------- CSV import
\* C30: an import has answered 'CSV import completed' only when the insert
\* of every row has finished; the insertedCount of the answer is the
\* number of product rows inserted and its errors list has one entry for
\* each row refused and for each row whose insert failed.
C30_ImportResponse ==
    \A r \in Req :
        (rq[r].kind = "import" /\ rq[r].resp = "200")
        => /\ pc[r] = "done"
           /\ rq[r].count = rq[r].inserted
           /\ rq[r].errs = rq[r].missing + rq[r].dberrs

\* ------------------------------------------------- product and inventory
\* C24: whenever no request is in flight, each committed product has
\* exactly one committed inventory record and each committed inventory
\* record belongs to a committed product.
C24_OneToOne ==
    Quiescent
    => \A p \in Pid :
          /\ p \in disk.products => Len(InvRows(disk, p)) = 1
          /\ InvRows(disk, p) # <<>> => p \in disk.products

\* -------------------------------------------------------- duplicate alerts
ActiveAlertsOf(d, p) ==
    {i \in 1..Len(d.alerts) :
        d.alerts[i].product_id = p /\ d.alerts[i].status = "active"}

\* the alert evaluations of product p whose lookup ran while p had no
\* active alert
ClearEvaluations(p) ==
    {i \in 1..Len(tasks) : tasks[i].pid = p /\ tasks[i].clear}

\* C22: a product never has more active alerts than it had alert
\* evaluations whose lookup ran while it had no active alert.
C22_BoundedDuplicates ==
    \A p \in Pid :
        Cardinality(ActiveAlertsOf(db, p)) <= Cardinality(ClearEvaluations(p))

\* --------------------------------------------------- the daily stock check
\* the tables other than alerts are the same, on the connection and
\* committed
OnlyAlertsMayChange ==
    /\ \A d \in {<<db, db'>>, <<disk, disk'>>} :
          /\ d[2].products = d[1].products
          /\ d[2].inventory = d[1].inventory
          /\ d[2].sales = d[1].sales
          /\ d[2].movements = d[1].movements

\* C23: the daily stock check writes nothing itself and starts an alert
\* evaluation only for products whose quantity is at or below their
\* reorder level when it runs; a step of such an evaluation leaves
\* products, inventory, sales and stock movements as they are and at most
\* appends one alert, for the product of the evaluation.
C23_StockCheckFrame ==
    [][/\ \A r \in Req :
             (pc[r] = "idle" /\ rq'[r].kind = "cron")
             => /\ db' = db /\ disk' = disk
                /\ \A i \in (Len(tasks) + 1)..Len(tasks') :
                      LET t == tasks'[i]
                      IN  /\ t.by = r
                          /\ t.pid \in db.products
                          /\ \E j \in 1..Len(InvRows(db, t.pid)) :
                                /\ InvRows(db, t.pid)[j].quantity = t.q
                                /\ InvRows(db, t.pid)[j].reorder_level = t.rl
                          /\ t.q <= t.rl
       /\ \A i \in 1..Len(tasks) :
             (rq[tasks[i].by].kind = "cron" /\ tasks'[i].pc # tasks[i].pc
                 /\ tasks'[i].pc # "crashed")
             => /\ OnlyAlertsMayChange
                /\ \/ db'.alerts = db.alerts
                   \/ /\ Len(db'.alerts) = Len(db.alerts) + 1
                      /\ SubSeq(db'.alerts, 1, Len(db.alerts)) = db.alerts
                      /\ db'.alerts[Len(db'.alerts)].product_id = tasks[i].pid
                      /\ tasks[i].q <= tasks[i].rl]_vars

\* a daily stock check has raised an alert
C23_Witness ==
    \E r \in Req :
        /\ rq[r].kind = "cron" /\ Completed(r)
        /\ \E i \in By(disk.alerts, r) :
              /\ disk.alerts[i].status = "active"
              /\ disk.alerts[i].quantity <= disk.alerts[i].reorder_level

\* ------------------------------------------------------ order of the steps
\* C25: the COMMIT of a sale runs only when its sale row, its inventory
\* update and its stock movement are written, and no step of the alert
\* evaluation of a sale runs before the COMMIT of that sale has completed.
C25_StepOrder ==
    [][/\ \A r \in Req :
             (IsSale(r) /\ pc[r] = "s_commit" /\ pc'[r] = "done")
             => /\ By(db.sales, r) # {}
                /\ By(db.movements, r) # {}
                /\ InvRows(db, rq[r].pid)[1].quantity = rq[r].newQ
       /\ \A i \in 1..Len(tasks) :
             (IsSale(tasks[i].by) /\ tasks'[i].pc # tasks[i].pc)
             => pc[tasks[i].by] = "done"]_vars

\* ------------------------------------------- isolation from other requests
\* C26: once every request has finished, each sale that answered 201 and
\* none of whose own statements failed has its sale row and its stock
\* movement committed, whatever the other requests did.
C26_IsolatedFromFailures ==
    (\A s \in Req : pc[s] = "idle" \/ Finished(s))
    => \A r \in Req :
          (Succeeded(r) /\ rq[r].failed = "none")
          => /\ By(disk.sales, r) # {}
             /\ By(disk.movements, r) # {}

\* ------------------------------------------------------ the seeding script
\* C29: every stock movement written by the seeding script has
\* new_quantity = previous_quantity + quantity_change and a new_quantity
\* that is not negative, and whenever the script is between two movements
\* the inventory quantity of each product it has written a movement for is
\* the new_quantity of the last of them.
C29_SeedMovements ==
    rq[1].kind = "seed"
    => /\ \A i \in 1..Len(db.movements) :
             LET m == db.movements[i]
             IN  /\ m.new_quantity = m.previous_quantity + m.quantity_change
                 /\ m.new_quantity >= 0
       /\ pc[1] \in {"m_get", "done"}
          => \A p \in SeedPid :
                LET ms == MovementsOf(db, p)
                IN  ms # <<>>
                    => InvRows(db, p)[1].quantity = ms[Len(ms)].new_quantity

\* ------------------------------------------------------- eventual alert
\* C27: whenever a sale has committed with newQuantity <= reorderLevel
\* (the statements of the alert evaluation succeeding), an active alert of
\* its product exists then or later.
C27_EventuallyAlert ==
    \A r \in Req :
        (Succeeded(r) /\ pc[r] = "done" /\ rq[r].failed = "none"
            /\ rq[r].low)
        ~> ActiveAlert(db, rq[r].pid)

\* ------------------------------------------- termination of transactions
\* the handlers that open a transaction
OpensTransaction(r) == rq[r].kind \in {"sale", "create", "update"}

\* handler r issues the COMMIT or the ROLLBACK of its transaction
EndsTransaction(r) ==
    \/ pc[r] \in {"rollback", "s_commit", "commit"} /\ pc'[r] # pc[r]
    \/ pc[r] = "move_commit" /\ pc'[r] = "move"

\* C28: run one at a time, a handler that opens a transaction reaches its
\* end on every path; its one COMMIT or ROLLBACK finds the transaction of
\* its BEGIN open and closes it, no transaction is open when the handler
\* has finished, and it has answered, once.
C28_TransactionClosed ==
    /\ [][\A r \in Req :
            /\ (OpensTransaction(r) /\ EndsTransaction(r))
                  => (inTxn /\ ~inTxn')
            /\ (OpensTransaction(r)' /\ ~Finished(r) /\ Finished(r)')
                  => (~inTxn' /\ rq'[r].resp # "none")
            /\ (OpensTransaction(r) /\ rq[r].resp # "none")
                  => rq'[r].resp = rq[r].resp]_vars
    /\ \A r \in Req : OpensTransaction(r) ~> Finished(r)

\* a sale ended by its error branch and an update ended by its COMMIT
C28_Witness ==
    \E r, s \in Req :
        /\ IsSale(r) /\ pc[r] = "done" /\ rq[r].resp = "500 sale"
        /\ rq[s].kind = "update" /\ pc[s] = "done" /\ rq[s].resp = "200"
        /\ rq[s].failed = "none"
        /\ ~inTxn

====
